---- MODULE Spec2Model ----
(***************************************************************************)
(* A model of src/util/mapbox.js: the URL resolver (normalizeStyleURL,     *)
(* normalizeGlyphsURL, normalizeSourceURL, normalizeSpriteURL,             *)
(* normalizeTileURL over parseUrl / formatUrl / makeAPIURL) and the usage  *)
(* reporter (postTurnstileEvent and its onreadystatechange callback).      *)
(*                                                                         *)
(* A JavaScript string is a sequence of one-character strings, so that the *)
(* regular expressions and the prefix tests act on characters as they do   *)
(* in the source.  The empty sequence also stands for an absent (null or   *)
(* undefined) string argument: the source tests such arguments only for    *)
(* truthiness, and '' is falsy like null and undefined.                    *)
(***************************************************************************)
EXTENDS Integers, Sequences, FiniteSets, TLC

VARIABLES
    API_URL,               \* config.API_URL
    ACCESS_TOKEN,          \* config.ACCESS_TOKEN (<<>> when not configured)
    REQUIRE_ACCESS_TOKEN,  \* config.REQUIRE_ACCESS_TOKEN
    call,                  \* the last resolve call: operation and arguments
    result,                \* what that call returned or threw
    lsWorks,               \* window.localStorage exists and accepts setItem
    lsData,                \* the entry 'mapbox.userTurnstileData'
    now,                   \* the clock read by Date.now() / new Date()
    xhrs,                  \* the requests in flight, with their closures
    tLast                  \* the last step of the usage reporter

vars == <<API_URL, ACCESS_TOKEN, REQUIRE_ACCESS_TOKEN, call, result,
          lsWorks, lsData, now, xhrs, tLast>>

configVars == <<API_URL, ACCESS_TOKEN, REQUIRE_ACCESS_TOKEN>>
resolverVars == <<call, result>>
turnstileVars == <<lsWorks, lsData, now, xhrs, tLast>>

-----------------------------------------------------------------------------
(* Bounds of the model.                                                    *)

\* longest enumerated text after "scheme://" in a locator
MaxTail == 3
\* most query params in an enumerated tile URL
MaxParams == 2
\* last instant of the clock
MaxTime == 6
\* most requests in flight at once
MaxXhr == 1
\* clock instants in a day (24 * 60 * 60 * 1000 ms in the source)
TicksPerDay == 2
\* days in a month: getDate() wraps around after this many days
DaysPerMonth == 2

-----------------------------------------------------------------------------
(* String literals of the source.                                          *)

MAPBOX_COLON == <<"m","a","p","b","o","x",":">>
SCHEME_SEP == <<":","/","/">>
STYLES_V1 == <<"/","s","t","y","l","e","s","/","v","1">>
FONTS_V1 == <<"/","f","o","n","t","s","/","v","1">>
V4_SLASH == <<"/","v","4","/">>
DOT_JSON == <<".","j","s","o","n">>
SECURE == <<"s","e","c","u","r","e">>
SPRITE == <<"/","s","p","r","i","t","e">>
ACCESS_TOKEN_EQ == <<"a","c","c","e","s","s","_","t","o","k","e","n","=">>
ACCESS_TOKEN_EQ_TK == ACCESS_TOKEN_EQ \o <<"t","k",".">>
AT_2X == <<"@","2","x">>
DOT_WEBP == <<".","w","e","b","p">>
PNG == <<"p","n","g">>
JPG == <<"j","p","g">>

\* \w of a JavaScript regular expression: [A-Za-z0-9_]
Digits == {"0","1","2","3","4","5","6","7","8","9"}
WordChars ==
    {"a","b","c","d","e","f","g","h","i","j","k","l","m",
     "n","o","p","q","r","s","t","u","v","w","x","y","z",
     "A","B","C","D","E","F","G","H","I","J","K","L","M",
     "N","O","P","Q","R","S","T","U","V","W","X","Y","Z","_"} \cup Digits
\* what '.' of a regular expression does not match
LineTerminators == {"\n", "\r"}

-----------------------------------------------------------------------------
(* String primitives.                                                      *)

Min(S) == CHOOSE x \in S : \A y \in S : x <= y

\* the number of consecutive characters of s, from position i on, that are in C
RunIn(s, i, C) ==
    Min({j \in i..(Len(s) + 1) : j = Len(s) + 1 \/ s[j] \notin C}) - i

\* the number of consecutive characters of s, from position i on, not in C
RunNotIn(s, i, C) ==
    Min({j \in i..(Len(s) + 1) : j = Len(s) + 1 \/ s[j] \in C}) - i

\* s has p at position i
HasAt(s, p, i) ==
    /\ i + Len(p) - 1 <= Len(s)
    /\ SubSeq(s, i, i + Len(p) - 1) = p

\* s.indexOf(p) === 0
StartsWith(s, p) == HasAt(s, p, 1)

\* s.split(sep) for a one-character separator; n is the length of the text
\* before the first separator
RECURSIVE split(_, _)
RECURSIVE splitAt(_, _, _)
splitAt(s, sep, n) ==
    IF n = Len(s) THEN <<s>>
    ELSE <<SubSeq(s, 1, n)>> \o split(SubSeq(s, n + 2, Len(s)), sep)

split(s, sep) == splitAt(s, sep, RunNotIn(s, 1, {sep}))

\* params.join(sep)
RECURSIVE join(_, _)
join(params, sep) ==
    IF params = <<>> THEN <<>>
    ELSE IF Len(params) = 1 THEN params[1]
    ELSE params[1] \o sep \o join(Tail(params), sep)

-----------------------------------------------------------------------------
(* parseUrl and formatUrl.                                                 *)
(* urlRe, anchored at the start of the string, is made of:                 *)
(*   group 1: one or more word characters, then the literal "://";         *)
(*   group 2: any number of characters other than '/' and '?';             *)
(*   group 3, optional: a '/' and one or more characters other than '?';   *)
(*   an optional '?';                                                      *)
(*   group 4, optional: one or more characters other than line ends.       *)
(* Every quantifier is greedy and everything after group 2 is optional, so *)
(* the match, when there is one, takes the longest run at each step.       *)

\* url.match(urlRe) is not null
urlReMatches(url) ==
    LET n1 == RunIn(url, 1, WordChars)
    IN  n1 >= 1 /\ HasAt(url, SCHEME_SEP, n1 + 1)

\* The groups of url.match(urlRe), matched one after the other; <<>> is a
\* group that did not take part.

\* group 4, from position p5: the rest of the line
urlReGroup4(url, g1, g2, g3, p5) ==
    [g1 |-> g1, g2 |-> g2, g3 |-> g3,
     g4 |-> SubSeq(url, p5, p5 + RunNotIn(url, p5, LineTerminators) - 1)]

\* the optional '?' at position p4
urlReQuestionMark(url, g1, g2, g3, p4) ==
    urlReGroup4(url, g1, g2, g3,
                IF p4 <= Len(url) /\ url[p4] = "?" THEN p4 + 1 ELSE p4)

\* group 3, at position p3: a slash and at least one character that is not
\* '?', or nothing
urlReGroup3(url, g1, g2, p3) ==
    IF p3 <= Len(url) /\ url[p3] = "/" /\ RunNotIn(url, p3 + 1, {"?"}) >= 1
    THEN urlReQuestionMark(url, g1, g2,
             SubSeq(url, p3, p3 + RunNotIn(url, p3 + 1, {"?"})),
             p3 + 1 + RunNotIn(url, p3 + 1, {"?"}))
    ELSE urlReQuestionMark(url, g1, g2, <<>>, p3)

\* group 2, of n2 characters from position p2
urlReGroup2(url, g1, p2, n2) ==
    urlReGroup3(url, g1, SubSeq(url, p2, p2 + n2 - 1), p2 + n2)

\* group 1, of n1 characters, and the "://" after it
urlReGroup1(url, n1) ==
    urlReGroup2(url, SubSeq(url, 1, n1), n1 + 4,
                RunNotIn(url, n1 + 4, {"/", "?"}))

urlReGroups(url) == urlReGroup1(url, RunIn(url, 1, WordChars))

\* the object parseUrl builds from the match
urlObjectOf(parts) ==
    [protocol  |-> parts.g1,
     authority |-> parts.g2,
     path      |-> IF parts.g3 # <<>> THEN parts.g3 ELSE <<"/">>,
     params    |-> IF parts.g4 # <<>> THEN split(parts.g4, "&") ELSE <<>>]

\* parseUrl(url), for a url that matches (the caller throws otherwise)
parseUrl(url) == urlObjectOf(urlReGroups(url))

formatUrl(obj) ==
    obj.protocol \o SCHEME_SEP \o obj.authority \o obj.path \o
        (IF Len(obj.params) # 0
         THEN <<"?">> \o join(obj.params, <<"&">>)
         ELSE <<>>)

-----------------------------------------------------------------------------
(* What a resolve operation hands back: a URL, or an Error thrown.         *)

Return(url) == [ok |-> TRUE, url |-> url, error |-> "none"]
Throw(error) == [ok |-> FALSE, url |-> <<>>, error |-> error]

UnableToParse == "Unable to parse URL object"
TokenRequired == "An API access token is required to use Mapbox GL."
SecretToken == "Use a public access token (pk.*) with Mapbox GL, not a secret access token (sk.*)."

-----------------------------------------------------------------------------
(* The resolve operations.                                                 *)

\* makeAPIURL, lines 21 to 26: urlObject on the API's host and under its path
onApiHost(urlObject, apiUrlObject) ==
    [urlObject EXCEPT
       !.protocol = apiUrlObject.protocol,
       !.authority = apiUrlObject.authority,
       !.path = IF apiUrlObject.path # <<"/">>
                THEN apiUrlObject.path \o @ ELSE @]

\* withAccessToken without the test of accessToken[0]
withAccessToken_noSecretCheck(urlObject, accessToken) ==
    IF ~REQUIRE_ACCESS_TOKEN THEN Return(formatUrl(urlObject))
    ELSE IF accessToken = <<>> THEN Throw(TokenRequired)
    ELSE Return(formatUrl([urlObject EXCEPT
             !.params = Append(@, ACCESS_TOKEN_EQ \o accessToken)]))

\* makeAPIURL, lines 28 to 37, accessToken being accessToken || config.ACCESS_TOKEN
withAccessToken(urlObject, accessToken) ==
    IF ~REQUIRE_ACCESS_TOKEN THEN Return(formatUrl(urlObject))
    ELSE IF accessToken = <<>> THEN Throw(TokenRequired)
    ELSE IF accessToken[1] = "s" THEN Throw(SecretToken)
    ELSE Return(formatUrl([urlObject EXCEPT
             !.params = Append(@, ACCESS_TOKEN_EQ \o accessToken)]))

makeAPIURL(urlObject, accessToken) ==
    IF ~urlReMatches(API_URL) THEN Throw(UnableToParse)
    ELSE withAccessToken(onApiHost(urlObject, parseUrl(API_URL)),
                         IF accessToken # <<>> THEN accessToken ELSE ACCESS_TOKEN)

\* isMapboxURL testing for 'mapbox:' anywhere in the url
isMapboxURL_anywhere(url) ==
    \E i \in 1..Len(url) : HasAt(url, MAPBOX_COLON, i)

isMapboxURL(url) == StartsWith(url, MAPBOX_COLON)

\* the style path with the locator's authority kept in it
stylePath_keepAuthority(urlObject) ==
    [urlObject EXCEPT !.path = STYLES_V1 \o <<"/">> \o urlObject.authority \o @]

\* normalizeStyleURL, line 49
stylePath(urlObject) == [urlObject EXCEPT !.path = STYLES_V1 \o @]

normalizeStyleURL(url, accessToken) ==
    IF ~isMapboxURL(url) THEN Return(url)
    ELSE IF ~urlReMatches(url) THEN Throw(UnableToParse)
    ELSE makeAPIURL(stylePath(parseUrl(url)), accessToken)

normalizeGlyphsURL(url, accessToken) ==
    IF ~isMapboxURL(url) THEN Return(url)
    ELSE IF ~urlReMatches(url) THEN Throw(UnableToParse)
    ELSE makeAPIURL([parseUrl(url) EXCEPT !.path = FONTS_V1 \o @], accessToken)

\* normalizeSourceURL, lines 63 to 66
sourcePath(urlObject) ==
    [urlObject EXCEPT
       !.path = V4_SLASH \o urlObject.authority \o DOT_JSON,
       !.params = Append(@, SECURE)]

normalizeSourceURL(url, accessToken) ==
    IF ~isMapboxURL(url) THEN Return(url)
    ELSE IF ~urlReMatches(url) THEN Throw(UnableToParse)
    ELSE makeAPIURL(sourcePath(parseUrl(url)), accessToken)

normalizeSpriteURL(url, format, extension, accessToken) ==
    IF ~urlReMatches(url) THEN Throw(UnableToParse)
    ELSE IF ~isMapboxURL(url)
    THEN Return(formatUrl([parseUrl(url) EXCEPT !.path = @ \o format \o extension]))
    ELSE makeAPIURL([parseUrl(url) EXCEPT
             !.path = STYLES_V1 \o @ \o SPRITE \o format \o extension],
             accessToken)

MinOrZero(S) == IF S = {} THEN 0 ELSE Min(S)

\* imageExtensionRe: a '.', then png or jpg, then digits, up to the end of
\* the string.  The index of the leftmost match in path, or 0 when there is none.
imageExtensionRe(path) ==
    MinOrZero({i \in 1..Len(path) :
                 /\ path[i] = "."
                 /\ HasAt(path, PNG, i + 1) \/ HasAt(path, JPG, i + 1)
                 /\ i + 4 + RunIn(path, i + 4, Digits) = Len(path) + 1})

\* path with the match at m, if any, replaced by suffix and then '.webp' or
\* $1, the whole match
replaceMatch(path, m, suffix, supportsWebp) ==
    IF m = 0 THEN path
    ELSE SubSeq(path, 1, m - 1) \o suffix \o
         (IF supportsWebp THEN DOT_WEBP ELSE SubSeq(path, m, Len(path)))

replaceTempAccessToken(params) ==
    [i \in 1..Len(params) |->
        IF StartsWith(params[i], ACCESS_TOKEN_EQ_TK)
        THEN ACCESS_TOKEN_EQ \o ACCESS_TOKEN
        ELSE params[i]]

\* normalizeTileURL, lines 92 to 95
tileUrl(urlObject, suffix, supportsWebp) ==
    formatUrl([urlObject EXCEPT
        !.path = replaceMatch(@, imageExtensionRe(@), suffix, supportsWebp),
        !.params = replaceTempAccessToken(@)])

\* normalizeTileURL with devicePixelRatio > 2 for >= 2
normalizeTileURL_strictRatio(tileURL, sourceURL, tileSize, browser) ==
    IF sourceURL = <<>> \/ ~isMapboxURL(sourceURL) THEN Return(tileURL)
    ELSE IF ~urlReMatches(tileURL) THEN Throw(UnableToParse)
    ELSE Return(tileUrl(parseUrl(tileURL),
                        IF browser.devicePixelRatio > 2 \/ tileSize = 512
                        THEN AT_2X ELSE <<>>,
                        browser.supportsWebp))

\* browser is what browser.devicePixelRatio and browser.supportsWebp read
\* during the call; tileSize 0 stands for an absent tileSize
normalizeTileURL(tileURL, sourceURL, tileSize, browser) ==
    IF sourceURL = <<>> \/ ~isMapboxURL(sourceURL) THEN Return(tileURL)
    ELSE IF ~urlReMatches(tileURL) THEN Throw(UnableToParse)
    ELSE Return(tileUrl(parseUrl(tileURL),
                        IF browser.devicePixelRatio >= 2 \/ tileSize = 512
                        THEN AT_2X ELSE <<>>,
                        browser.supportsWebp))

-----------------------------------------------------------------------------
(* The inputs of the resolver.                                             *)

SeqsUpTo(S, n) == UNION {[1..k -> S] : k \in 0..n}

MAPBOX == <<"m","a","p","b","o","x">>
HTTP == <<"h","t","t","p">>

\* what follows "scheme://": every text of at most MaxTail characters that
\* are a letter or a delimiter of the URL grammar, and a few longer ones
TailChars == {"a", "/", "?", "&"}
LongTails ==
    { <<"a","/","a","?","a","&","a">>,  \* a/a?a&a
      <<"a","/","?","a">>,              \* a/?a
      <<"a","?","a","&","a">>,          \* a?a&a
      <<"a","/","a","/","?","&","a">>,  \* a/a/?&a
      <<"m","y","s","o","u","r","c","e">>,
      <<"s","t","y","l","e","s","/","f","o","o","/","b","a","r">> }
Tails == SeqsUpTo(TailChars, MaxTail) \cup LongTails

\* locators that urlRe does not match
Unparseable ==
    { MAPBOX_COLON \o <<"a">>,          \* mapbox:a
      <<"a","/","a">> }                 \* a/a

Locators ==
    {sch \o SCHEME_SEP \o t : sch \in {MAPBOX, HTTP}, t \in Tails}
        \cup Unparseable

PK_ABC == <<"p","k",".","A","B","C">>
SK_ABC == <<"s","k",".","A","B","C">>
PK_X == <<"p","k",".","X">>
SK_X == <<"s","k",".","X">>
TK_X == <<"t","k",".","X">>

\* the accessToken argument; <<>> is an argument left out
TokenArguments == {<<>>, PK_ABC, SK_ABC}
\* config.ACCESS_TOKEN; <<>> is a token not configured
ConfiguredTokens == {<<>>, PK_X, SK_X, TK_X}

API_MAPBOX_COM ==
    <<"h","t","t","p","s",":","/","/",
      "a","p","i",".","m","a","p","b","o","x",".","c","o","m">>
ApiUrls == {API_MAPBOX_COM, API_MAPBOX_COM \o <<"/","b">>}

SpriteFormats == {<<>>, AT_2X}
SpriteExtensions == {<<>>, DOT_JSON}

TILES_BASE == MAPBOX \o SCHEME_SEP \o <<"t","i","l","e","s">>
TilePaths ==
    { <<>>,
      <<"/">>,
      <<"/","1","/","2","/","3",".","p","n","g">>,
      <<"/","3",".","j","p","g","7","0">>,
      <<"/","3",".","p","n","g",".","j","p","g">>,
      <<"/","3",".","p","n","g","x">>,
      <<"/","3",".","p","n","g","/","a">> }
TileParams ==
    { ACCESS_TOKEN_EQ_TK \o <<"s","1">>,
      ACCESS_TOKEN_EQ \o PK_ABC,
      <<"a","=","1">> }
TileURLs ==
    {TILES_BASE \o p \o (IF q = <<>> THEN <<>> ELSE <<"?">> \o join(q, <<"&">>)) :
        p \in TilePaths, q \in SeqsUpTo(TileParams, MaxParams)}
        \cup {<<"a","/","3",".","p","n","g","?">> \o ACCESS_TOKEN_EQ_TK \o <<"s","1">>}

\* the sourceURL argument; <<>> is a source left out
TILESET == MAPBOX \o SCHEME_SEP \o <<"t","i","l","e","s","e","t">>
SourceURLs ==
    { <<>>,
      TILESET,
      HTTP \o SCHEME_SEP \o <<"a">>,
      <<"x">> \o MAPBOX \o SCHEME_SEP \o <<"a">> }
\* the tileSize argument; 0 is a tileSize left out
TileSizes == {0, 256, 512}
Browsers == [devicePixelRatio : {1, 2}, supportsWebp : BOOLEAN]

-----------------------------------------------------------------------------
(* The resolver as a state machine.  A resolve call reads the              *)
(* configuration and its arguments and writes nothing that a later call    *)
(* reads, so a behaviour is one configuration and one call made under it.  *)

NoBrowser == [devicePixelRatio |-> 1, supportsWebp |-> FALSE]

Call(op, url, accessToken, format, extension, sourceURL, tileSize, browser) ==
    [op |-> op, url |-> url, accessToken |-> accessToken, format |-> format,
     extension |-> extension, sourceURL |-> sourceURL, tileSize |-> tileSize,
     browser |-> browser]

NoCall == Call("none", <<>>, <<>>, <<>>, <<>>, <<>>, 0, NoBrowser)

NormalizeStyleURL ==
    /\ call.op = "none"
    /\ \E url \in Locators, accessToken \in TokenArguments :
         /\ call' = Call("normalizeStyleURL", url, accessToken,
                         <<>>, <<>>, <<>>, 0, NoBrowser)
         /\ result' = normalizeStyleURL(url, accessToken)
    /\ UNCHANGED <<configVars, turnstileVars>>

NormalizeGlyphsURL ==
    /\ call.op = "none"
    /\ \E url \in Locators, accessToken \in TokenArguments :
         /\ call' = Call("normalizeGlyphsURL", url, accessToken,
                         <<>>, <<>>, <<>>, 0, NoBrowser)
         /\ result' = normalizeGlyphsURL(url, accessToken)
    /\ UNCHANGED <<configVars, turnstileVars>>

NormalizeSourceURL ==
    /\ call.op = "none"
    /\ \E url \in Locators, accessToken \in TokenArguments :
         /\ call' = Call("normalizeSourceURL", url, accessToken,
                         <<>>, <<>>, <<>>, 0, NoBrowser)
         /\ result' = normalizeSourceURL(url, accessToken)
    /\ UNCHANGED <<configVars, turnstileVars>>

NormalizeSpriteURL ==
    /\ call.op = "none"
    /\ \E url \in Locators, format \in SpriteFormats,
          extension \in SpriteExtensions, accessToken \in TokenArguments :
         /\ call' = Call("normalizeSpriteURL", url, accessToken,
                         format, extension, <<>>, 0, NoBrowser)
         /\ result' = normalizeSpriteURL(url, format, extension, accessToken)
    /\ UNCHANGED <<configVars, turnstileVars>>

NormalizeTileURL ==
    /\ call.op = "none"
    /\ \E tileURL \in TileURLs, sourceURL \in SourceURLs,
          tileSize \in TileSizes, browser \in Browsers :
         /\ call' = Call("normalizeTileURL", tileURL, <<>>,
                         <<>>, <<>>, sourceURL, tileSize, browser)
         /\ result' = normalizeTileURL(tileURL, sourceURL, tileSize, browser)
    /\ UNCHANGED <<configVars, turnstileVars>>

-----------------------------------------------------------------------------
(* The usage reporter.                                                     *)

EVENTS_URL ==
    <<"h","t","t","p","s",":","/","/","e","v","e","n","t","s",".",
      "m","a","p","b","o","x",".","c","o","m","/","e","v","e","n","t","s","/","v","2">>

\* the values uuid() returns
UUIDs == {"uuid-1", "uuid-2"}
\* anonId values a stored entry may hold: a uuid, a string that is none,
\* and "undefined" for a field that is not there
StoredIds == UUIDs \cup {"not-a-uuid", "undefined"}

\* the storage areas window has
WindowStorage == {"localStorage", "sessionStorage"}

\* util.storageAvailable(type): window[type] takes and gives back an entry
storageAvailable(type) == type \in WindowStorage /\ lsWorks

\* util.validateUuid(str)
validateUuid(str) == str \in UUIDs

\* the entry 'mapbox.userTurnstileData': nothing (getItem gives null), text
\* that is not JSON, the JSON text null, or a JSON object whose lastSuccess
\* is 0 when the field is not there
NullData == [kind |-> "null", anonId |-> "undefined", lastSuccess |-> 0]
MalformedData == [kind |-> "malformed", anonId |-> "undefined", lastSuccess |-> 0]
JsonNullData == [kind |-> "json-null", anonId |-> "undefined", lastSuccess |-> 0]
ObjectData(anonId, lastSuccess) ==
    [kind |-> "object", anonId |-> anonId, lastSuccess |-> lastSuccess]
StoredData ==
    {NullData, MalformedData, JsonNullData}
        \cup {ObjectData(a, t) : a \in StoredIds, t \in 0..MaxTime}

\* Date.prototype.getDate(): the day of the month of instant t
getDate(t) == (((t - 1) \div TicksPerDay) % DaysPerMonth) + 1

\* postTurnstileEvent up to xhr.send(); newId is what uuid() would return.
\* raised: an exception left the function; sent: xhr.send() was reached
postTurnstileEvent(newId) ==
    LET quiet == [sent |-> FALSE, raised |-> FALSE, anonId |-> "undefined",
                  localStorageAvailable |-> FALSE]
    IN
    IF ACCESS_TOKEN = <<>> THEN quiet
    ELSE
    LET localStorageAvailable == storageAvailable("localSotorage")
        data == lsData    \* window.localStorage.getItem(...)
        read == localStorageAvailable /\ data.kind # "null"
        \* JSON.parse(data) throws, or json is null and json.anonId throws
        parseThrows == read /\ data.kind \in {"malformed", "json-null"}
        stored == IF read THEN data.anonId ELSE "undefined"
        lastUpdateTime == IF read THEN data.lastSuccess ELSE 0
        anonId == IF validateUuid(stored) THEN stored ELSE newId
        daysElapsedInTicks == now - lastUpdateTime
    IN  IF parseThrows THEN [quiet EXCEPT !.raised = TRUE]
        ELSE IF /\ lastUpdateTime # 0
                /\ getDate(lastUpdateTime) = getDate(now)
                /\ daysElapsedInTicks >= 0
                /\ daysElapsedInTicks < TicksPerDay
        THEN quiet
        ELSE IF ~urlReMatches(EVENTS_URL) THEN [quiet EXCEPT !.raised = TRUE]
        ELSE [sent |-> TRUE, raised |-> FALSE, anonId |-> anonId,
              localStorageAvailable |-> localStorageAvailable]

\* the condition of the if in xhr.onreadystatechange; && binds tighter than ||
turnstileWrites(localStorageAvailable, readyState, status) ==
    (localStorageAvailable /\ readyState = 4 /\ status = 200) \/ status = 204

TStep(op, sent, raised, wrote, readyState, status) ==
    [op |-> op, sent |-> sent, raised |-> raised, wrote |-> wrote,
     readyState |-> readyState, status |-> status]

PostTurnstileEvent ==
    /\ Len(xhrs) < MaxXhr
    /\ \E newId \in UUIDs :
         LET r == postTurnstileEvent(newId)
         IN  /\ xhrs' = IF r.sent
                        THEN Append(xhrs,
                               [anonId |-> r.anonId,
                                localStorageAvailable |-> r.localStorageAvailable,
                                readyState |-> 1, status |-> 0])
                        ELSE xhrs
             /\ tLast' = TStep("postTurnstileEvent", r.sent, r.raised, FALSE, 0, 0)
    /\ UNCHANGED <<lsWorks, lsData, now, configVars, resolverVars>>

\* the statuses a response may carry
Statuses == {200, 204, 500}

\* the <<readyState, status>> an XMLHttpRequest in state x may move to:
\* OPENED (1) to HEADERS_RECEIVED (2) with the response's status, then
\* LOADING (3), then DONE (4); a request that fails is DONE with status 0
NextReadyStates(x) ==
    IF x.readyState = 1
    THEN {<<2, st>> : st \in Statuses} \cup {<<4, 0>>}
    ELSE IF x.readyState = 2
    THEN {<<3, x.status>>, <<4, x.status>>}
    ELSE {<<4, x.status>>, <<4, 0>>}

\* one readystatechange event of a request in flight, and its handler
OnReadyStateChange ==
    \E i \in 1..Len(xhrs) :
      \E to \in NextReadyStates(xhrs[i]) :
        LET this == [xhrs[i] EXCEPT !.readyState = to[1], !.status = to[2]]
            writes == turnstileWrites(this.localStorageAvailable,
                                      this.readyState, this.status)
        IN  /\ lsData' = IF writes /\ lsWorks
                         THEN ObjectData(this.anonId, now)
                         ELSE lsData
            \* window.localStorage.setItem throws when the storage does not work
            /\ tLast' = TStep("onreadystatechange", FALSE, writes /\ ~lsWorks,
                              writes /\ lsWorks, this.readyState, this.status)
            /\ xhrs' = IF this.readyState = 4
                       THEN SubSeq(xhrs, 1, i - 1) \o SubSeq(xhrs, i + 1, Len(xhrs))
                       ELSE [xhrs EXCEPT ![i] = this]
            /\ UNCHANGED <<lsWorks, now, configVars, resolverVars>>

\* time passes
Tick ==
    /\ now < MaxTime
    /\ now' = now + 1
    /\ UNCHANGED <<lsWorks, lsData, xhrs, tLast, configVars, resolverVars>>

-----------------------------------------------------------------------------
(* The two specifications.                                                 *)

NoStep == TStep("none", FALSE, FALSE, FALSE, 0, 0)

\* the resolver, under every configuration
Init ==
    /\ API_URL \in ApiUrls
    /\ ACCESS_TOKEN \in ConfiguredTokens
    /\ REQUIRE_ACCESS_TOKEN \in BOOLEAN
    /\ call = NoCall
    /\ result = Return(<<>>)
    /\ lsWorks = TRUE
    /\ lsData = NullData
    /\ now = 1
    /\ xhrs = <<>>
    /\ tLast = NoStep

Next ==
    \/ NormalizeStyleURL
    \/ NormalizeGlyphsURL
    \/ NormalizeSourceURL
    \/ NormalizeSpriteURL
    \/ NormalizeTileURL

Spec == Init /\ [][Next]_vars

\* the usage reporter, from every stored entry an earlier session may have left
TurnstileInit ==
    /\ API_URL = API_MAPBOX_COM
    /\ ACCESS_TOKEN \in {<<>>, PK_X}
    /\ REQUIRE_ACCESS_TOKEN = TRUE
    /\ call = NoCall
    /\ result = Return(<<>>)
    /\ lsWorks \in BOOLEAN
    /\ lsData \in StoredData
    /\ now \in 1..MaxTime
    /\ xhrs = <<>>
    /\ tLast = NoStep

TurnstileNext ==
    \/ PostTurnstileEvent
    \/ OnReadyStateChange
    \/ Tick

TurnstileSpec == TurnstileInit /\ [][TurnstileNext]_vars

-----------------------------------------------------------------------------
(* The URL grammar scheme://authority[/path][?query], read off a string    *)
(* without urlRe: what the properties below call a locator's authority,    *)
(* path and params.                                                        *)

EndsWith(s, p) == Len(p) <= Len(s) /\ SubSeq(s, Len(s) - Len(p) + 1, Len(s)) = p

\* the text after "scheme://"
AfterScheme(u) == SubSeq(u, RunIn(u, 1, WordChars) + 4, Len(u))
\* "scheme://authority"
UpToAuthority(u) ==
    SubSeq(u, 1, RunIn(u, 1, WordChars) + 3 + RunNotIn(AfterScheme(u), 1, {"/", "?"}))
GrammarAuthority(u) ==
    SubSeq(AfterScheme(u), 1, RunNotIn(AfterScheme(u), 1, {"/", "?"}))
\* the text from the end of the authority to the first '?'; '/' when empty
GrammarPath(u) ==
    LET r == AfterScheme(u)
        a == RunNotIn(r, 1, {"/", "?"})
        q == RunNotIn(r, 1, {"?"})
    IN  IF q = a THEN <<"/">> ELSE SubSeq(r, a + 1, q)
\* the text after the first '?'
GrammarQuery(u) ==
    LET r == AfterScheme(u)
    IN  SubSeq(r, RunNotIn(r, 1, {"?"}) + 2, Len(r))
GrammarParams(u) ==
    IF GrammarQuery(u) = <<>> THEN <<>> ELSE split(GrammarQuery(u), "&")

\* u has an authority, made of word characters and dots
HasPlainAuthority(u) ==
    /\ GrammarAuthority(u) # <<>>
    /\ \A i \in 1..Len(GrammarAuthority(u)) :
          GrammarAuthority(u)[i] \in WordChars \cup {"."}

\* the API base: config.API_URL's scheme and authority, and its path unless '/'
ApiBase ==
    UpToAuthority(API_URL) \o
        (IF GrammarPath(API_URL) = <<"/">> THEN <<>> ELSE GrammarPath(API_URL))

\* the token in effect in the last call: the argument if given, else the
\* configured one
TokenInEffect == IF call.accessToken # <<>> THEN call.accessToken ELSE ACCESS_TOKEN
SecretTokenInEffect == TokenInEffect # <<>> /\ TokenInEffect[1] = "s"
PublicTokenInEffect == TokenInEffect # <<>> /\ TokenInEffect[1] # "s"

ApiOperations ==
    {"normalizeStyleURL", "normalizeGlyphsURL", "normalizeSourceURL",
     "normalizeSpriteURL"}
ResolveOperations == ApiOperations \cup {"normalizeTileURL"}

\* s begins with p, and p is followed in s by nothing or by a '?'
HasUrlUpToQuery(s, p) ==
    /\ StartsWith(s, p)
    /\ Len(s) > Len(p) => s[Len(p) + 1] = "?"

-----------------------------------------------------------------------------
(* C1                                                                      *)

\* C1 as stated: with REQUIRE_ACCESS_TOKEN true, every resolve operation, for
\* every locator urlRe accepts, throws the secret-token error and returns no
\* URL when the token in effect begins with 's'.
C1_EveryOperationRejectsSecretToken ==
    (/\ call.op \in ResolveOperations
     /\ REQUIRE_ACCESS_TOKEN
     /\ urlReMatches(call.url)
     /\ SecretTokenInEffect)
        => (~result.ok /\ result.error = SecretToken /\ result.url = <<>>)

\* C1 amended: with REQUIRE_ACCESS_TOKEN true and an API_URL that urlRe
\* accepts, normalizeStyleURL, normalizeGlyphsURL, normalizeSourceURL and
\* normalizeSpriteURL throw the secret-token error and return no URL for
\* every custom-scheme locator that urlRe accepts when the token in effect
\* begins with 's'; normalizeTileURL,
\* and every operation given a locator that is not custom-scheme, never throws
\* that error.
C1_ApiOperationsRejectSecretToken ==
    /\ (/\ call.op \in ApiOperations
        /\ REQUIRE_ACCESS_TOKEN
        /\ urlReMatches(API_URL)
        /\ StartsWith(call.url, MAPBOX_COLON)
        /\ urlReMatches(call.url)
        /\ SecretTokenInEffect)
           => (~result.ok /\ result.error = SecretToken /\ result.url = <<>>)
    /\ (call.op = "normalizeTileURL" \/ ~StartsWith(call.url, MAPBOX_COLON))
           => result.error # SecretToken

\* a style call with no token argument threw the secret-token error on the
\* configured secret token
C1_Witness ==
    /\ call.op = "normalizeStyleURL"
    /\ call.accessToken = <<>>
    /\ ACCESS_TOKEN = SK_X
    /\ REQUIRE_ACCESS_TOKEN
    /\ result = Throw(SecretToken)

-----------------------------------------------------------------------------
(* C4                                                                      *)

\* normalizeSpriteURL(url, '', '') of a locator that is not custom-scheme is
\* formatUrl(parseUrl(url))
IsFormatOfParse ==
    /\ call.op = "normalizeSpriteURL"
    /\ call.format = <<>>
    /\ call.extension = <<>>
    /\ ~StartsWith(call.url, MAPBOX_COLON)
    /\ result.ok

\* C4: for every string u that parseUrl accepts, parseUrl(formatUrl(parseUrl(u)))
\* equals parseUrl(u) in protocol, authority, path and params.
C4_ParseFormatRoundTrip ==
    IsFormatOfParse => parseUrl(result.url) = parseUrl(call.url)

-----------------------------------------------------------------------------
(* C5                                                                      *)

STYLES_FOO_BAR ==
    MAPBOX \o SCHEME_SEP \o <<"s","t","y","l","e","s","/","f","o","o","/","b","a","r">>

IsStyleExample ==
    /\ call.op = "normalizeStyleURL"
    /\ call.url = STYLES_FOO_BAR
    /\ call.accessToken = PK_ABC
    /\ API_URL = API_MAPBOX_COM
    /\ REQUIRE_ACCESS_TOKEN

IsStyleOfCustomScheme ==
    /\ call.op = "normalizeStyleURL"
    /\ StartsWith(call.url, MAPBOX_COLON)
    /\ urlReMatches(call.url)
    /\ urlReMatches(API_URL)
    /\ REQUIRE_ACCESS_TOKEN
    /\ PublicTokenInEffect

\* the returned URL's last param is access_token=<the token in effect>
LastParamIsToken ==
    \/ EndsWith(result.url, <<"?">> \o ACCESS_TOKEN_EQ \o TokenInEffect)
    \/ EndsWith(result.url, <<"&">> \o ACCESS_TOKEN_EQ \o TokenInEffect)

\* C5 as stated: the example returns
\* https://api.mapbox.com/styles/v1/styles/foo/bar?access_token=pk.ABC, and
\* for a custom-scheme style locator mapbox://A/P the returned path is
\* /styles/v1/ then A then /P, with access_token=<token> as the last param.
C5_StylePathKeepsAuthority ==
    /\ IsStyleExample =>
          result = Return(API_MAPBOX_COM \o STYLES_V1 \o
                          <<"/","s","t","y","l","e","s","/","f","o","o","/","b","a","r">> \o
                          <<"?">> \o ACCESS_TOKEN_EQ \o PK_ABC)
    /\ (IsStyleOfCustomScheme /\ HasPlainAuthority(call.url)) =>
          /\ result.ok
          /\ HasUrlUpToQuery(result.url,
                 ApiBase \o STYLES_V1 \o <<"/">> \o GrammarAuthority(call.url)
                     \o GrammarPath(call.url))
          /\ LastParamIsToken

\* C5 amended: the example returns
\* https://api.mapbox.com/styles/v1/foo/bar?access_token=pk.ABC, and for a
\* custom-scheme style locator mapbox://A/P the returned path is /styles/v1
\* then /P (the locator's path, '/' when it has none; A is dropped), after the
\* API base path if there is one, with access_token=<token> as the last param.
C5_StylePathDropsAuthority ==
    /\ IsStyleExample =>
          result = Return(API_MAPBOX_COM \o STYLES_V1 \o
                          <<"/","f","o","o","/","b","a","r">> \o
                          <<"?">> \o ACCESS_TOKEN_EQ \o PK_ABC)
    /\ IsStyleOfCustomScheme =>
          /\ result.ok
          /\ HasUrlUpToQuery(result.url,
                 ApiBase \o STYLES_V1 \o GrammarPath(call.url))
          /\ LastParamIsToken

\* the example was resolved, and to a URL
C5_Witness == IsStyleExample /\ result.ok

-----------------------------------------------------------------------------
(* C7                                                                      *)

\* C7: normalizeTileURL returns the tile URL unchanged, and throws nothing,
\* whenever the source locator is absent or empty or does not begin with
\* 'mapbox:', whatever the tile URL, tileSize, pixel ratio and WebP support.
C7_TileIdentityWithoutCustomSource ==
    (/\ call.op = "normalizeTileURL"
     /\ call.sourceURL = <<>> \/ ~StartsWith(call.sourceURL, MAPBOX_COLON))
        => result = Return(call.url)

\* a tile URL with an image extension and a temporary token came back as it
\* was, on a hidpi device with WebP, for a source that holds 'mapbox:' but
\* does not begin with it
C7_Witness ==
    /\ call.op = "normalizeTileURL"
    /\ call.sourceURL = <<"x">> \o MAPBOX \o SCHEME_SEP \o <<"a">>
    /\ call.url = TILES_BASE \o <<"/","1","/","2","/","3",".","p","n","g">>
                    \o <<"?">> \o ACCESS_TOKEN_EQ_TK \o <<"s","1">>
    /\ call.browser = [devicePixelRatio |-> 2, supportsWebp |-> TRUE]
    /\ call.tileSize = 512
    /\ result = Return(call.url)

-----------------------------------------------------------------------------
(* C8                                                                      *)

IsTileOfCustomSource ==
    /\ call.op = "normalizeTileURL"
    /\ call.sourceURL # <<>>
    /\ StartsWith(call.sourceURL, MAPBOX_COLON)
    /\ urlReMatches(call.url)

\* C8, for the calls that rewrite at all (a custom-scheme source): each query
\* param of the tile URL of the form access_token=tk.<anything> comes back as
\* access_token=<configured ACCESS_TOKEN, or empty>, at its position, and
\* every other param comes back with its value at its position.
C8_TempTokenRewritten ==
    (/\ IsTileOfCustomSource
     /\ \E i \in 1..Len(GrammarParams(call.url)) :
           StartsWith(GrammarParams(call.url)[i], ACCESS_TOKEN_EQ_TK))
     =>
        /\ result.ok
        /\ LET params == GrammarParams(call.url)
               rewritten == [i \in 1..Len(params) |->
                               IF StartsWith(params[i], ACCESS_TOKEN_EQ_TK)
                               THEN ACCESS_TOKEN_EQ \o ACCESS_TOKEN
                               ELSE params[i]]
           IN  GrammarQuery(result.url) = join(rewritten, <<"&">>)

-----------------------------------------------------------------------------
(* C9                                                                      *)

\* ext is .png or .jpg followed by digits only
IsImageExtension(ext) ==
    /\ Len(ext) >= 4
    /\ SubSeq(ext, 1, 4) \in {<<".">> \o PNG, <<".">> \o JPG}
    /\ \A i \in 5..Len(ext) : ext[i] \in Digits

TILE_EXAMPLE == TILES_BASE \o <<"/","1","/","2","/","3",".","p","n","g">>

IsTileExample ==
    /\ call.op = "normalizeTileURL"
    /\ call.url = TILE_EXAMPLE
    /\ call.sourceURL = TILESET
    /\ call.tileSize = 512
    /\ ~call.browser.supportsWebp

\* C9: for a custom-scheme source, a tile URL path that ends in .png or .jpg
\* and then digits has exactly that suffix replaced by D then E, D being '@2x'
\* if devicePixelRatio >= 2 or tileSize = 512 and '' otherwise, E being
\* '.webp' if WebP is supported and the suffix itself otherwise; a path with
\* no such suffix is unchanged; mapbox://tiles/1/2/3.png with tileSize 512 and
\* no WebP ends in 3@2x.png.
C9_TileImageSuffix ==
    /\ IsTileOfCustomSource =>
         LET path == GrammarPath(call.url)
             cuts == {k \in 1..Len(path) : IsImageExtension(SubSeq(path, k, Len(path)))}
             D == IF call.browser.devicePixelRatio >= 2 \/ call.tileSize = 512
                  THEN AT_2X ELSE <<>>
         IN  /\ result.ok
             /\ \A k \in cuts :
                  LET E == IF call.browser.supportsWebp THEN DOT_WEBP
                           ELSE SubSeq(path, k, Len(path))
                  IN  HasUrlUpToQuery(result.url,
                          UpToAuthority(call.url) \o SubSeq(path, 1, k - 1) \o D \o E)
             /\ cuts = {} =>
                  HasUrlUpToQuery(result.url, UpToAuthority(call.url) \o path)
    /\ IsTileExample =>
         /\ result.ok
         /\ EndsWith(result.url, <<"3","@","2","x",".","p","n","g">>)

\* the example was resolved on a device of pixel ratio 1: tileSize 512 alone
\* brought the @2x, and the extension stayed .png
C9_Witness ==
    /\ IsTileExample
    /\ call.browser.devicePixelRatio = 1
    /\ result = Return(TILES_BASE \o <<"/","1","/","2","/","3","@","2","x",".","p","n","g">>)

-----------------------------------------------------------------------------
(* C10                                                                     *)

\* C10: for a custom-scheme source locator with authority A and a public
\* token T in effect, REQUIRE_ACCESS_TOKEN true, normalizeSourceURL returns
\* the API base, the path /v4/A.json, and as params the locator's own params
\* in order, then secure, then access_token=T.
C10_SourcePathAndParams ==
    (/\ call.op = "normalizeSourceURL"
     /\ StartsWith(call.url, MAPBOX_COLON)
     /\ urlReMatches(call.url)
     /\ HasPlainAuthority(call.url)
     /\ REQUIRE_ACCESS_TOKEN
     /\ PublicTokenInEffect)
        => result = Return(
              ApiBase \o V4_SLASH \o GrammarAuthority(call.url) \o DOT_JSON
                \o <<"?">>
                \o join(GrammarParams(call.url)
                          \o <<SECURE, ACCESS_TOKEN_EQ \o TokenInEffect>>, <<"&">>))

-----------------------------------------------------------------------------
(* C2, C3, C6: the usage reporter                                          *)

\* C2: the stored record is written only in a readystatechange callback in
\* which the request is finished (readyState 4) and the status is 200 or 204.
C2_WriteOnlyAfterConfirmedSuccess ==
    tLast.wrote => (tLast.readyState = 4 /\ tLast.status \in {200, 204})

\* a stored lastSuccess of the same day of the month as now, at most a day old
SentToday ==
    /\ lsData.kind = "object"
    /\ lsData.lastSuccess # 0
    /\ getDate(lsData.lastSuccess) = getDate(now)
    /\ now - lsData.lastSuccess >= 0
    /\ now - lsData.lastSuccess < TicksPerDay

\* C3: with a token configured and a working store, postTurnstileEvent sends a
\* request if and only if the store holds no lastSuccess of today's day of the
\* month that is less than a day old.  (postTurnstileEvent changes neither
\* the store nor the clock, so both are read here as the call read them.)
C3_SendsUnlessSentToday ==
    (/\ tLast.op = "postTurnstileEvent"
     /\ ACCESS_TOKEN # <<>>
     /\ lsWorks)
        => (tLast.sent <=> ~SentToday)

\* C6: neither postTurnstileEvent nor its completion callback ever raises.
C6_NeverRaises == ~tLast.raised

====
